---- MODULE Spec2Model ----
(***************************************************************************)
(* Model of org-structure-api: the department service (Create, Update,     *)
(* Delete), the employee service (Create), the PostgreSQL-backed           *)
(* repositories they call and the schema's constraints.                    *)
(*                                                                         *)
(* Spec          service calls of the handlers, one request at a time      *)
(* SpecResolver  the recursive descendants query, one iteration at a time  *)
(* SpecCreateRace, SpecMoveRace, SpecDeleteRace  two requests interleaved  *)
(*               store call by store call (the service opens no            *)
(*               transaction)                                              *)
(* SpecPlainStore  Delete (cascade) on a store without referential actions *)
(* SpecValidated   Create and Update with the handler's validation         *)
(* SpecProject     GET with its query parameters and the projected tree    *)
(* SpecMemberRace  CreateEmployee and Delete (either mode) interleaved     *)
(***************************************************************************)
EXTENDS Integers, Sequences, FiniteSets, TLC

VARIABLES depts, emps, deptSeq, empSeq, last, cte, procs

vars == <<depts, emps, deptSeq, empSeq, last, cte, procs>>

(***************************************************************************)
(* Bounds                                                                  *)
(***************************************************************************)
\* largest id the departments sequence hands out
MaxDeptID == 3
\* largest id the employees sequence hands out
MaxEmpID == 2
\* iterations of the recursive query the model follows
MaxCteIter == 5
\* units in the table when two concurrent requests start
MaxRaceUnits == 2

\* a nil *int64 / SQL NULL parent_id (ids are BIGSERIAL, so they start at 1)
NULL == 0

DeptIDs == 1..MaxDeptID
EmpIDs == 1..MaxEmpID

\* request names as character sequences, before trimming
RawNames == {<<"a">>, <<" ", "a", " ">>, <<"b">>}

\* an optional request field (a Go pointer): <<>> is nil, <<x>> points to x
None == <<>>
Some(x) == <<x>>
Opt(S) == {None} \cup {Some(x) : x \in S}

(***************************************************************************)
(* strings.TrimSpace                                                       *)
(***************************************************************************)
RECURSIVE TrimLeft(_)
TrimLeft(s) ==
    IF s # <<>> /\ Head(s) = " " THEN TrimLeft(Tail(s)) ELSE s

RECURSIVE TrimRight(_)
TrimRight(s) ==
    IF s # <<>> /\ s[Len(s)] = " " THEN TrimRight(SubSeq(s, 1, Len(s) - 1)) ELSE s

TrimSpace(s) == TrimRight(TrimLeft(s))

(***************************************************************************)
(* The store: tables departments and employees with their constraints      *)
(***************************************************************************)
Department(id, name, parent) == [id |-> id, name |-> name, parent |-> parent]
Employee(id, dept) == [id |-> id, dept |-> dept]

IdsOf(d) == {r.id : r \in d}
RowOf(d, id) == CHOOSE r \in d : r.id = id
ChildrenOf(d, S) == {r.id : r \in {x \in d : x.parent \in S}}

\* the table as it would be without the foreign key on parent_id
FkParentUnchecked(d, row) == TRUE

\* parent_id BIGINT REFERENCES departments(id)
FkParentOk(d, row) == row.parent = NULL \/ row.parent \in IdsOf(d)

\* CONSTRAINT unique_name_per_parent UNIQUE (name, parent_id): rows whose
\* parent_id is NULL never conflict (NULLs are distinct in a UNIQUE constraint)
UniqueOk(d, row) ==
    \A r \in d : r.id # row.id /\ r.name = row.name =>
                    (row.parent = NULL \/ r.parent # row.parent)

\* departmentRepository.GetByID
GetByID(d, id) ==
    IF id \in IdsOf(d) THEN [err |-> "ok", dept |-> RowOf(d, id)]
                       ELSE [err |-> "NotFound", dept |-> Department(NULL, <<>>, NULL)]

\* departmentRepository.Create: INSERT with the next value of the sequence
RepoCreate(d, seq, name, parent) ==
    LET row == Department(seq, name, parent)
    IN  IF FkParentOk(d, row) /\ UniqueOk(d, row)
        THEN [err |-> "ok", depts |-> d \cup {row}, dept |-> row]
        ELSE [err |-> "StoreError", depts |-> d, dept |-> row]

\* departmentRepository.Update: gorm Save writes every column of the row with
\* this primary key, and inserts the row when the UPDATE touched none
RepoUpdate(d, row) ==
    LET others == {r \in d : r.id # row.id}
    IN  IF FkParentOk(others \cup {row}, row) /\ UniqueOk(others, row)
        THEN [err |-> "ok", depts |-> others \cup {row}]
        ELSE [err |-> "StoreError", depts |-> d]

\* the cascade as it would be if it stopped at the children of the removed row
CascadeOneLevel(d, S) == S \cup ChildrenOf(d, S)

\* ON DELETE CASCADE on departments.parent_id: every row below a removed row
RECURSIVE CascadeSet(_, _)
CascadeSet(d, S) ==
    LET next == S \cup ChildrenOf(d, S)
    IN  IF next = S THEN S ELSE CascadeSet(d, next)

\* the DELETE as it would be without ON DELETE CASCADE on employees.department_id
DeleteRowKeepsMembers(d, e, id) ==
    [depts |-> {r \in d : r.id \notin CascadeSet(d, {id})}, emps |-> e]

\* DELETE FROM departments WHERE id = ?, with both ON DELETE CASCADE actions
DeleteRow(d, e, id) ==
    LET gone == CascadeSet(d, {id})
    IN  [depts |-> {r \in d : r.id \notin gone},
         emps  |-> {m \in e : m.dept \notin gone}]

\* departmentRepository.Delete
RepoDelete(d, e, id) ==
    IF id \notin IdsOf(d)
    THEN [err |-> "NotFound", depts |-> d, emps |-> e]
    ELSE [err |-> "ok", depts |-> DeleteRow(d, e, id).depts,
                        emps |-> DeleteRow(d, e, id).emps]

\* departmentRepository.DeleteCascade
DeleteCascade(d, e, id) == RepoDelete(d, e, id)

\* ExistsByNameAndParent as it would be with "parent_id = NULL" for a nil parent
ExistsByNameAndParentSkipsRoots(d, name, parentID, excludeID) ==
    \E r \in d :
        /\ r.name = name
        /\ parentID # NULL /\ r.parent = parentID
        /\ excludeID # NULL => r.id # excludeID

\* departmentRepository.ExistsByNameAndParent (excludeID: NULL is nil)
ExistsByNameAndParent(d, name, parentID, excludeID) ==
    \E r \in d :
        /\ r.name = name
        /\ IF parentID # NULL THEN r.parent = parentID ELSE r.parent = NULL
        /\ excludeID # NULL => r.id # excludeID

\* employeeRepository.ReassignToDepartment
ReassignToDepartment(e, fromDeptID, toDeptID) ==
    {IF m.dept = fromDeptID THEN Employee(m.id, toDeptID) ELSE m : m \in e}

\* employeeRepository.Create: INSERT, department_id REFERENCES departments(id)
EmpCreate(d, e, seq, deptID) ==
    IF deptID \in IdsOf(d)
    THEN [err |-> "ok", emps |-> e \cup {Employee(seq, deptID)}]
    ELSE [err |-> "StoreError", emps |-> e]

(***************************************************************************)
(* The recursive query of GetAllDescendantIDs, as PostgreSQL evaluates     *)
(* WITH RECURSIVE ... UNION ALL: the non-recursive term fills the working  *)
(* table; each iteration joins the working table with departments, appends *)
(* the rows found to the result and makes them the next working table; the *)
(* query ends when the working table is empty.  A department has one       *)
(* parent_id, so the rows of one working table are distinct.               *)
(***************************************************************************)
RECURSIVE SetToSeq(_)
SetToSeq(S) ==
    IF S = {} THEN <<>>
    ELSE LET m == CHOOSE x \in S : \A y \in S : x <= y
         IN  <<m>> \o SetToSeq(S \ {m})

SeqToSet(s) == {s[i] : i \in 1..Len(s)}

\* SELECT id FROM departments WHERE parent_id = $1
CteInit(d, id) ==
    [root |-> id, work |-> ChildrenOf(d, {id}),
     result |-> SetToSeq(ChildrenOf(d, {id})), iters |-> 0]

\* the recursive term as it would be if it joined nothing (direct children only)
CteStepNoRecursion(d, c) ==
    [root |-> c.root, work |-> {}, result |-> c.result, iters |-> c.iters + 1]

\* SELECT d.id FROM departments d INNER JOIN descendants ds ON d.parent_id = ds.id
CteStep(d, c) ==
    LET found == ChildrenOf(d, c.work)
    IN  [root |-> c.root, work |-> found,
         result |-> c.result \o SetToSeq(found), iters |-> c.iters + 1]

\* the query run to its end; a working table that is still not empty after
\* more iterations than there are rows never empties, and the caller gets the
\* server's error instead of rows
RECURSIVE CteRun(_, _)
CteRun(d, c) ==
    IF c.work = {} THEN [err |-> "ok", ids |-> c.result]
    ELSE IF c.iters > Cardinality(d) THEN [err |-> "StoreError", ids |-> <<>>]
    ELSE CteRun(d, CteStep(d, c))

\* departmentRepository.GetAllDescendantIDs
GetAllDescendantIDs(d, id) == CteRun(d, CteInit(d, id))

\* IsDescendant as it would be with a query that is not recursive
IsDescendantChildrenOnly(d, ancestorID, descendantID) ==
    [err |-> "ok", val |-> descendantID \in ChildrenOf(d, {ancestorID})]

\* departmentRepository.IsDescendant
IsDescendant(d, ancestorID, descendantID) ==
    LET descendants == GetAllDescendantIDs(d, ancestorID)
    IN  IF descendants.err # "ok" THEN [err |-> descendants.err, val |-> FALSE]
        ELSE [err |-> "ok",
              val |-> \E i \in 1..Len(descendants.ids) : descendants.ids[i] = descendantID]

(***************************************************************************)
(* The services, one whole request at a time.  fail numbers the store call *)
(* of the request that fails for a reason of the store (connection lost);  *)
(* 0 is no such failure.  Each operator gives the handler's result and the *)
(* store it leaves.                                                        *)
(***************************************************************************)
Outcome(result, d, e) == [result |-> result, depts |-> d, emps |-> e]

\* Create as it would be without the lookup of the parent
ServiceCreateSkipsParentLookup(d, e, seq, rawName, parentID, fail) ==
    LET name == TrimSpace(rawName)
        ins  == RepoCreate(d, seq, name, parentID)
    IN  IF fail \in {1, 2, 3} THEN Outcome("StoreError", d, e)
        ELSE IF ExistsByNameAndParent(d, name, parentID, NULL)
             THEN Outcome("Duplicate", d, e)
        ELSE Outcome(ins.err, ins.depts, e)

\* Create as it would be if it compared and stored the name as received
ServiceCreateNoTrim(d, e, seq, rawName, parentID, fail) ==
    LET ins == RepoCreate(d, seq, rawName, parentID)
    IN  IF fail \in {1, 2, 3} THEN Outcome("StoreError", d, e)
        ELSE IF parentID # NULL /\ GetByID(d, parentID).err # "ok"
             THEN Outcome(GetByID(d, parentID).err, d, e)
        ELSE IF ExistsByNameAndParent(d, rawName, parentID, NULL)
             THEN Outcome("Duplicate", d, e)
        ELSE Outcome(ins.err, ins.depts, e)

\* departmentService.Create; store calls: 1 GetByID(parent), 2 Exists, 3 Create
ServiceCreate(d, e, seq, rawName, parentID, fail) ==
    LET name == TrimSpace(rawName)
        ins  == RepoCreate(d, seq, name, parentID)
    IN  IF parentID # NULL /\ fail = 1 THEN Outcome("StoreError", d, e)
        ELSE IF parentID # NULL /\ GetByID(d, parentID).err # "ok"
             THEN Outcome(GetByID(d, parentID).err, d, e)
        ELSE IF fail = 2 THEN Outcome("StoreError", d, e)
        ELSE IF ExistsByNameAndParent(d, name, parentID, NULL)
             THEN Outcome("Duplicate", d, e)
        ELSE IF fail = 3 THEN Outcome("StoreError", d, e)
        ELSE Outcome(ins.err, ins.depts, e)

\* whether Create reaches its INSERT, which takes a value of the sequence
CreateInserts(d, rawName, parentID, fail) ==
    /\ parentID # NULL => fail # 1 /\ GetByID(d, parentID).err = "ok"
    /\ fail \notin {2, 3}
    /\ ~ExistsByNameAndParent(d, TrimSpace(rawName), parentID, NULL)

\* the name part as it would be if the uniqueness query did not exclude id
UpdateNameCountsSelf(d, dept, id, nameOpt, parentID, fail) ==
    LET name == TrimSpace(nameOpt[1])
        checkParent == IF parentID # NULL THEN parentID ELSE dept.parent
    IN  IF nameOpt = None THEN [result |-> "ok", dept |-> dept]
        ELSE IF fail = 2 THEN [result |-> "StoreError", dept |-> dept]
        ELSE IF ExistsByNameAndParent(d, name, checkParent, NULL)
             THEN [result |-> "Duplicate", dept |-> dept]
        ELSE [result |-> "ok", dept |-> [dept EXCEPT !.name = name]]

\* the name part as it would be if it always looked under the current parent
UpdateNameChecksCurrentParent(d, dept, id, nameOpt, parentID, fail) ==
    LET name == TrimSpace(nameOpt[1])
    IN  IF nameOpt = None THEN [result |-> "ok", dept |-> dept]
        ELSE IF fail = 2 THEN [result |-> "StoreError", dept |-> dept]
        ELSE IF ExistsByNameAndParent(d, name, dept.parent, id)
             THEN [result |-> "Duplicate", dept |-> dept]
        ELSE [result |-> "ok", dept |-> [dept EXCEPT !.name = name]]

\* departmentService.Update, lines 75-95: the name, when the request has one
UpdateName(d, dept, id, nameOpt, parentID, fail) ==
    LET name == TrimSpace(nameOpt[1])
        checkParent == IF parentID # NULL THEN parentID ELSE dept.parent
    IN  IF nameOpt = None THEN [result |-> "ok", dept |-> dept]
        ELSE IF fail = 2 THEN [result |-> "StoreError", dept |-> dept]
        ELSE IF ExistsByNameAndParent(d, name, checkParent, id)
             THEN [result |-> "Duplicate", dept |-> dept]
        ELSE [result |-> "ok", dept |-> [dept EXCEPT !.name = name]]

\* the parent part as it would be if it saved a record built anew from the
\* request, which has no name
UpdateParentFreshRecord(d, dept, id, nameOpt, parentID, fail) ==
    LET isDescendant == IsDescendant(d, id, parentID)
    IN  IF parentID = NULL THEN [result |-> "ok", dept |-> dept]
        ELSE IF parentID = id THEN [result |-> "SelfReference", dept |-> dept]
        ELSE IF fail = 3 THEN [result |-> "StoreError", dept |-> dept]
        ELSE IF GetByID(d, parentID).err # "ok"
             THEN [result |-> GetByID(d, parentID).err, dept |-> dept]
        ELSE IF fail = 4 THEN [result |-> "StoreError", dept |-> dept]
        ELSE IF isDescendant.err # "ok" THEN [result |-> isDescendant.err, dept |-> dept]
        ELSE IF isDescendant.val THEN [result |-> "CyclicReference", dept |-> dept]
        ELSE IF nameOpt = None /\ fail = 5 THEN [result |-> "StoreError", dept |-> dept]
        ELSE IF nameOpt = None /\ ExistsByNameAndParent(d, dept.name, parentID, id)
             THEN [result |-> "Duplicate", dept |-> dept]
        ELSE [result |-> "ok",
              dept |-> Department(id, IF nameOpt = None THEN <<>> ELSE dept.name, parentID)]

\* the parent part as it would be without the check of the current name
UpdateParentSkipsNameCheck(d, dept, id, nameOpt, parentID, fail) ==
    LET isDescendant == IsDescendant(d, id, parentID)
    IN  IF parentID = NULL THEN [result |-> "ok", dept |-> dept]
        ELSE IF parentID = id THEN [result |-> "SelfReference", dept |-> dept]
        ELSE IF fail = 3 THEN [result |-> "StoreError", dept |-> dept]
        ELSE IF GetByID(d, parentID).err # "ok"
             THEN [result |-> GetByID(d, parentID).err, dept |-> dept]
        ELSE IF fail \in {4, 5} THEN [result |-> "StoreError", dept |-> dept]
        ELSE IF isDescendant.err # "ok" THEN [result |-> isDescendant.err, dept |-> dept]
        ELSE IF isDescendant.val THEN [result |-> "CyclicReference", dept |-> dept]
        ELSE [result |-> "ok", dept |-> [dept EXCEPT !.parent = parentID]]

\* departmentService.Update, lines 97-133: the parent, when the request has one
UpdateParent(d, dept, id, nameOpt, parentID, fail) ==
    LET isDescendant == IsDescendant(d, id, parentID)
    IN  IF parentID = NULL THEN [result |-> "ok", dept |-> dept]
        ELSE IF parentID = id THEN [result |-> "SelfReference", dept |-> dept]
        ELSE IF fail = 3 THEN [result |-> "StoreError", dept |-> dept]
        ELSE IF GetByID(d, parentID).err # "ok"
             THEN [result |-> GetByID(d, parentID).err, dept |-> dept]
        ELSE IF fail = 4 THEN [result |-> "StoreError", dept |-> dept]
        ELSE IF isDescendant.err # "ok" THEN [result |-> isDescendant.err, dept |-> dept]
        ELSE IF isDescendant.val THEN [result |-> "CyclicReference", dept |-> dept]
        ELSE IF nameOpt = None /\ fail = 5 THEN [result |-> "StoreError", dept |-> dept]
        ELSE IF nameOpt = None /\ ExistsByNameAndParent(d, dept.name, parentID, id)
             THEN [result |-> "Duplicate", dept |-> dept]
        ELSE [result |-> "ok", dept |-> [dept EXCEPT !.parent = parentID]]

\* departmentService.Update; store calls: 1 GetByID(id), 2 Exists (new name),
\* 3 GetByID(new parent), 4 IsDescendant, 5 Exists (current name), 6 Update
ServiceUpdate(d, e, id, nameOpt, parentID, fail) ==
    LET got    == GetByID(d, id)
        named  == UpdateName(d, got.dept, id, nameOpt, parentID, fail)
        moved  == UpdateParent(d, named.dept, id, nameOpt, parentID, fail)
        saved  == RepoUpdate(d, moved.dept)
    IN  IF fail = 1 THEN Outcome("StoreError", d, e)
        ELSE IF got.err # "ok" THEN Outcome(got.err, d, e)
        ELSE IF named.result # "ok" THEN Outcome(named.result, d, e)
        ELSE IF moved.result # "ok" THEN Outcome(moved.result, d, e)
        ELSE IF fail = 6 THEN Outcome("StoreError", d, e)
        ELSE Outcome(saved.err, saved.depts, e)

\* the members after ReassignToDepartment has run for every unit of S
RECURSIVE ReassignAll(_, _, _)
ReassignAll(e, S, toDeptID) ==
    IF S = {} THEN e
    ELSE LET x == CHOOSE y \in S : TRUE
         IN  ReassignAll(ReassignToDepartment(e, x, toDeptID), S \ {x}, toDeptID)

\* the reassign mode as it would be without the test targetID == id
DeleteReassignNoSelfTest(d, e, id, targetID, fail, done) ==
    LET e1 == ReassignToDepartment(e, id, targetID)
        descendants == GetAllDescendantIDs(d, id)
        e2 == ReassignAll(e1, SeqToSet(descendants.ids), targetID)
        del == DeleteCascade(d, e2, id)
    IN  IF targetID = NULL THEN Outcome("TargetRequired", d, e)
        ELSE IF fail = 2 THEN Outcome("StoreError", d, e)
        ELSE IF GetByID(d, targetID).err = "NotFound" THEN Outcome("TargetNotFound", d, e)
        ELSE IF fail = 3 THEN Outcome("StoreError", d, e)
        ELSE IF fail = 5 THEN Outcome("StoreError", d, e1)
        ELSE IF descendants.err # "ok" THEN Outcome(descendants.err, d, e1)
        ELSE IF fail = 6 /\ done # SeqToSet(descendants.ids)
             THEN Outcome("StoreError", d, ReassignAll(e1, done, targetID))
        ELSE IF fail = 7 THEN Outcome("StoreError", d, e2)
        ELSE Outcome(del.err, del.depts, del.emps)

\* departmentService.Delete, mode reassign; store calls: 2 GetByID(target),
\* 3 Reassign(id), 4 GetByID(id) (its error is dropped), 5 GetAllDescendantIDs,
\* 6 Reassign(descendant) in a loop, 7 DeleteCascade.  done is the set of
\* descendants the loop has reassigned when call 6 fails.
DeleteReassign(d, e, id, targetID, fail, done) ==
    LET e1 == ReassignToDepartment(e, id, targetID)
        descendants == GetAllDescendantIDs(d, id)
        e2 == ReassignAll(e1, SeqToSet(descendants.ids), targetID)
        del == DeleteCascade(d, e2, id)
    IN  IF targetID = NULL THEN Outcome("TargetRequired", d, e)
        ELSE IF targetID = id THEN Outcome("CannotReassignToSelf", d, e)
        ELSE IF fail = 2 THEN Outcome("StoreError", d, e)
        ELSE IF GetByID(d, targetID).err = "NotFound" THEN Outcome("TargetNotFound", d, e)
        ELSE IF fail = 3 THEN Outcome("StoreError", d, e)
        ELSE IF fail = 5 THEN Outcome("StoreError", d, e1)
        ELSE IF descendants.err # "ok" THEN Outcome(descendants.err, d, e1)
        ELSE IF fail = 6 /\ done # SeqToSet(descendants.ids)
             THEN Outcome("StoreError", d, ReassignAll(e1, done, targetID))
        ELSE IF fail = 7 THEN Outcome("StoreError", d, e2)
        ELSE Outcome(del.err, del.depts, del.emps)

\* Delete as it would be if every mode but reassign deleted
ServiceDeleteDefaultsToCascade(d, e, id, mode, targetID, fail, done) ==
    LET del == DeleteCascade(d, e, id)
    IN  IF fail = 1 THEN Outcome("StoreError", d, e)
        ELSE IF GetByID(d, id).err # "ok" THEN Outcome(GetByID(d, id).err, d, e)
        ELSE IF mode = "reassign" THEN DeleteReassign(d, e, id, targetID, fail, done)
        ELSE IF fail = 2 THEN Outcome("StoreError", d, e)
        ELSE Outcome(del.err, del.depts, del.emps)

\* departmentService.Delete; store calls: 1 GetByID(id), then by mode
ServiceDelete(d, e, id, mode, targetID, fail, done) ==
    LET del == DeleteCascade(d, e, id)
    IN  IF fail = 1 THEN Outcome("StoreError", d, e)
        ELSE IF GetByID(d, id).err # "ok" THEN Outcome(GetByID(d, id).err, d, e)
        ELSE IF mode = "cascade"
             THEN IF fail = 2 THEN Outcome("StoreError", d, e)
                  ELSE Outcome(del.err, del.depts, del.emps)
        ELSE IF mode = "reassign" THEN DeleteReassign(d, e, id, targetID, fail, done)
        ELSE Outcome("InvalidMode", d, e)

\* employeeService.Create as it would be without the lookup of the department
ServiceCreateEmployeeSkipsLookup(d, e, seq, departmentID, fail) ==
    LET ins == EmpCreate(d, e, seq, departmentID)
    IN  IF fail \in {1, 2} THEN Outcome("StoreError", d, e)
        ELSE Outcome(ins.err, d, ins.emps)

\* employeeService.Create; store calls: 1 GetByID(department), 2 Create
ServiceCreateEmployee(d, e, seq, departmentID, fail) ==
    LET ins == EmpCreate(d, e, seq, departmentID)
    IN  IF fail = 1 THEN Outcome("StoreError", d, e)
        ELSE IF GetByID(d, departmentID).err # "ok"
             THEN Outcome(GetByID(d, departmentID).err, d, e)
        ELSE IF fail = 2 THEN Outcome("StoreError", d, e)
        ELSE Outcome(ins.err, d, ins.emps)

(***************************************************************************)
(* Requests served one at a time.  last is the request being answered: its *)
(* result and the store it started from.  The next request is taken once   *)
(* the response has been written.                                          *)
(***************************************************************************)
Modes == {"cascade", "reassign", "invalid"}

Request(op, id, name, parent, mode, target) ==
    [op |-> op, id |-> id, name |-> name, parent |-> parent,
     mode |-> mode, target |-> target]

\* w.WriteHeader(status) and the ErrorResponse written with it
Reply(status, error) == [status |-> status, error |-> error]

\* handleServiceError as it would be without the case of ErrReassignTargetNotFound
HandleServiceErrorNoTargetCase(err) ==
    CASE err = "NotFound" -> Reply(404, "department not found")
      [] err = "EmployeeNotFound" -> Reply(404, "employee not found")
      [] err = "Duplicate" -> Reply(409, "department with this name already exists")
      [] err = "SelfReference" -> Reply(400, "department cannot be its own parent")
      [] err = "CyclicReference" -> Reply(409, "moving department would create a cycle")
      [] err = "InvalidMode" -> Reply(400, "invalid delete mode, use 'cascade' or 'reassign'")
      [] err = "TargetRequired" ->
            Reply(400, "reassign_to_department_id is required when mode is reassign")
      [] err = "CannotReassignToSelf" ->
            Reply(400, "cannot reassign to the same department being deleted")
      [] OTHER -> Reply(500, "internal server error")

\* DepartmentHandler.handleServiceError
HandleServiceError(err) ==
    CASE err = "NotFound" -> Reply(404, "department not found")
      [] err = "EmployeeNotFound" -> Reply(404, "employee not found")
      [] err = "Duplicate" -> Reply(409, "department with this name already exists")
      [] err = "SelfReference" -> Reply(400, "department cannot be its own parent")
      [] err = "CyclicReference" -> Reply(409, "moving department would create a cycle")
      [] err = "InvalidMode" -> Reply(400, "invalid delete mode, use 'cascade' or 'reassign'")
      [] err = "TargetRequired" ->
            Reply(400, "reassign_to_department_id is required when mode is reassign")
      [] err = "TargetNotFound" ->
            Reply(404, "target department for reassignment not found")
      [] err = "CannotReassignToSelf" ->
            Reply(400, "cannot reassign to the same department being deleted")
      [] OTHER -> Reply(500, "internal server error")

\* the status of a request that was served: http.StatusCreated for Create and
\* CreateEmployee, http.StatusNoContent for Delete, http.StatusOK otherwise
SuccessStatus(op) ==
    CASE op \in {"Create", "CreateEmployee"} -> 201
      [] op = "Delete" -> 204
      [] OTHER -> 200

\* what the handler writes for the result of a request
ResponseOf(op, result) ==
    IF result = "ok" THEN Reply(SuccessStatus(op), "")
    ELSE IF result = "ValidationError" THEN Reply(400, "validation error")
    ELSE HandleServiceError(result)

Served(req, out, fail, done, d, e) ==
    [req |-> req, result |-> out.result,
     fail |-> IF out.result = "StoreError" THEN fail ELSE 0, done |-> done,
     depts0 |-> d, emps0 |-> e, response |-> ResponseOf(req.op, out.result)]

NoRequest == Request("none", NULL, None, NULL, "", NULL)

\* a request in progress: where its handler stands and what it holds
Procs == {1, 2}
NoDept == Department(NULL, <<>>, NULL)
\* todo: the descendants Delete has still to go through; emp: the id of the
\* member CreateEmployee inserted; wrote: whether a statement of the request
\* has changed a table
Proc(pc, req, dept, result) ==
    [pc |-> pc, req |-> req, dept |-> dept, result |-> result,
     todo |-> <<>>, emp |-> NULL, wrote |-> FALSE]
IdleProcs == [p \in Procs |-> Proc("idle", NoRequest, NoDept, "")]
IdleCte == [root |-> NULL, work |-> {}, result |-> <<>>, iters |-> 0, status |-> "idle"]

Idle == Served(NoRequest, Outcome("ok", {}, {}), 0, {}, {}, {})

Init ==
    /\ depts = {}
    /\ emps = {}
    /\ deptSeq = 1
    /\ empSeq = 1
    /\ last = Idle
    /\ cte = IdleCte
    /\ procs = IdleProcs

\* a store failure is drawn only where the request reaches the failing call
Fires(fail, out) == fail # 0 => out.result = "StoreError"

Create(rawName, parentID, fail) ==
    LET out == ServiceCreate(depts, emps, deptSeq, rawName, parentID, fail)
        inserts == CreateInserts(depts, rawName, parentID, fail)
    IN  /\ last = Idle
        /\ Fires(fail, out)
        /\ inserts => deptSeq <= MaxDeptID
        /\ depts' = out.depts
        /\ deptSeq' = IF inserts THEN deptSeq + 1 ELSE deptSeq
        /\ last' = Served(Request("Create", NULL, Some(rawName), parentID, "", NULL),
                          out, fail, {}, depts, emps)
        /\ UNCHANGED <<emps, empSeq, cte, procs>>

Update(id, nameOpt, parentID, fail) ==
    LET out == ServiceUpdate(depts, emps, id, nameOpt, parentID, fail)
    IN  /\ last = Idle
        /\ Fires(fail, out)
        /\ depts' = out.depts
        /\ last' = Served(Request("Update", id, nameOpt, parentID, "", NULL),
                          out, fail, {}, depts, emps)
        /\ UNCHANGED <<emps, deptSeq, empSeq, cte, procs>>

Delete(id, mode, targetID, fail, done) ==
    LET out == ServiceDelete(depts, emps, id, mode, targetID, fail, done)
    IN  /\ last = Idle
        /\ Fires(fail, out)
        /\ fail = 6 => done \subseteq SeqToSet(GetAllDescendantIDs(depts, id).ids)
        /\ fail # 6 => done = {}
        /\ depts' = out.depts
        /\ emps' = out.emps
        /\ last' = Served(Request("Delete", id, None, NULL, mode, targetID),
                          out, fail, done, depts, emps)
        /\ UNCHANGED <<deptSeq, empSeq, cte, procs>>

CreateEmployee(departmentID, fail) ==
    LET out == ServiceCreateEmployee(depts, emps, empSeq, departmentID, fail)
        inserts == fail = 0 /\ GetByID(depts, departmentID).err = "ok"
    IN  /\ last = Idle
        /\ Fires(fail, out)
        /\ inserts => empSeq <= MaxEmpID
        /\ emps' = out.emps
        /\ empSeq' = IF inserts THEN empSeq + 1 ELSE empSeq
        /\ last' = Served(Request("CreateEmployee", departmentID, None, NULL, "", NULL),
                          out, fail, {}, depts, emps)
        /\ UNCHANGED <<depts, deptSeq, cte, procs>>

\* DepartmentHandler.respondJSON / respondError: the response is written and
\* the handler returns
Respond ==
    /\ last # Idle
    /\ last' = Idle
    /\ UNCHANGED <<depts, emps, deptSeq, empSeq, cte, procs>>

Next ==
    \/ Respond
    \/ /\ last = Idle
       /\ \E n \in RawNames, p \in DeptIDs \cup {NULL}, f \in 0..3 : Create(n, p, f)
    \/ /\ last = Idle
       /\ \E i \in DeptIDs, n \in Opt(RawNames), p \in DeptIDs \cup {NULL}, f \in 0..6 :
             Update(i, n, p, f)
    \/ /\ last = Idle
       /\ \E i \in DeptIDs, m \in Modes, t \in DeptIDs \cup {NULL}, f \in 0..7 :
             \E dn \in IF f = 6 THEN SUBSET DeptIDs ELSE {{}} : Delete(i, m, t, f, dn)
    \/ /\ last = Idle
       /\ \E i \in DeptIDs, f \in 0..2 : CreateEmployee(i, f)

Spec == Init /\ [][Next]_vars

(***************************************************************************)
(* The tree, read off the parent references (not through the store query)  *)
(***************************************************************************)
ParentOf(d, id) == IF id \in IdsOf(d) THEN RowOf(d, id).parent ELSE NULL

\* following parent references from id ends at a root without a repeat
RECURSIVE ReachesRoot(_, _, _)
ReachesRoot(d, id, seen) ==
    IF id = NULL \/ id \notin IdsOf(d) THEN TRUE
    ELSE IF id \in seen THEN FALSE
    ELSE ReachesRoot(d, ParentOf(d, id), seen \cup {id})

Acyclic(d) == \A r \in d : ReachesRoot(d, r.id, {})

\* the units met by following parent references from id, id excluded
RECURSIVE AncestorsOf(_, _, _)
AncestorsOf(d, id, seen) ==
    LET p == ParentOf(d, id)
    IN  IF p = NULL \/ p \in seen THEN seen
        ELSE AncestorsOf(d, p, seen \cup {p})

DescendantsOf(d, id) == {x \in IdsOf(d) : id \in AncestorsOf(d, x, {})}
SubtreeOf(d, id) == {id} \cup DescendantsOf(d, id)
MembersIn(e, S) == {m \in e : m.dept \in S}

(***************************************************************************)
(* Claims checked under Spec                                               *)
(***************************************************************************)
\* C1: in every state reached by non-overlapping Create, Update, Delete and
\* CreateEmployee requests, following parent references from any unit reaches
\* a root without revisiting a unit.
C1_Acyclic == Acyclic(depts)

\* a move has just succeeded and left a chain of three units
C1_Witness ==
    /\ last.req.op = "Update" /\ last.result = "ok" /\ last.req.parent # NULL
    /\ depts # last.depts0
    /\ \E r \in depts : r.parent # NULL /\ ParentOf(depts, r.parent) # NULL

\* C2: in every state reached by non-overlapping requests, no two distinct
\* units with the same parent (or both without parent) have the same name.
C2_SiblingNamesDistinct ==
    \A r1, r2 \in depts :
        r1.id # r2.id /\ r1.parent = r2.parent => r1.name # r2.name

\* a rename together with a move has just succeeded, next to a sibling that
\* carries the name the moved unit had before
C2_Witness ==
    /\ last.req.op = "Update" /\ last.result = "ok"
    /\ last.req.name # None /\ last.req.parent # NULL
    /\ depts # last.depts0
    /\ \E r \in depts :
          /\ r.id # last.req.id
          /\ r.parent = last.req.parent
          /\ r.name = RowOf(last.depts0, last.req.id).name

\* C3: an Update of an existing unit whose new parent is the unit itself or
\* one of its current descendants, with or without a new name, fails with
\* SelfReference resp. CyclicReference and changes nothing.
C3_MoveUnderSelfOrDescendantRejected ==
    LET r == last.req
    IN  (/\ r.op = "Update" /\ last.fail = 0
         /\ r.id \in IdsOf(last.depts0)
         /\ r.parent # NULL
         /\ r.parent \in SubtreeOf(last.depts0, r.id))
        => /\ last.result = IF r.parent = r.id THEN "SelfReference"
                                               ELSE "CyclicReference"
           /\ depts = last.depts0
           /\ emps = last.emps0

\* C4: after a successful Delete(id, reassign, target) with an existing target
\* other than id, the target exists, every member of the subtree of id is
\* owned by target, no member is lost or added, and no unit of the subtree
\* exists.
C4_ReassignKeepsMembers ==
    LET r == last.req
        sub == SubtreeOf(last.depts0, r.id)
    IN  (r.op = "Delete" /\ r.mode = "reassign" /\ last.result = "ok")
        => /\ r.target \in IdsOf(depts)
           /\ \A m \in MembersIn(last.emps0, sub) : Employee(m.id, r.target) \in emps
           /\ {m.id : m \in emps} = {m.id : m \in last.emps0}
           /\ Cardinality(emps) = Cardinality(last.emps0)
           /\ IdsOf(depts) \cap sub = {}

\* C5: a successful Delete(id, cascade) on a unit with N descendants removes
\* exactly those N+1 units and exactly the members they own; every other unit
\* and member is still there.
C5_CascadeRemovesSubtree ==
    LET r == last.req
        sub == SubtreeOf(last.depts0, r.id)
    IN  (r.op = "Delete" /\ r.mode = "cascade" /\ last.result = "ok")
        => /\ depts = {x \in last.depts0 : x.id \notin sub}
           /\ emps = {m \in last.emps0 : m.dept \notin sub}
           /\ Cardinality(last.depts0) - Cardinality(depts)
                 = Cardinality(DescendantsOf(last.depts0, r.id)) + 1

\* a cascade delete of a unit with a grandchild, a member in the subtree and a
\* unit outside it has just succeeded
C5_Witness ==
    LET r == last.req
        sub == SubtreeOf(last.depts0, r.id)
    IN  /\ r.op = "Delete" /\ r.mode = "cascade" /\ last.result = "ok"
        /\ Cardinality(sub) >= 2
        /\ MembersIn(last.emps0, sub \ {r.id}) # {}
        /\ depts # {}

\* C6: when a store call of Delete(id, reassign, target) fails after an
\* earlier store write of the same request, the request returns an error and
\* units and members are as they were before it.
C6_ReassignFailureRollsBack ==
    LET r == last.req
    IN  (r.op = "Delete" /\ r.mode = "reassign" /\ last.fail \in {5, 6, 7})
        => /\ last.result # "ok"
           /\ depts = last.depts0
           /\ emps = last.emps0

(***************************************************************************)
(* Claims about the results of single requests, checked under Spec.  The   *)
(* trimmed name is stated here on its own: what is left of the requested   *)
(* name once the spaces before and after it are taken away.                *)
(***************************************************************************)
Spaces(n) == [i \in 1..n |-> " "]

TrimmedOf(raw) ==
    CHOOSE n \in {SubSeq(raw, i, j) : i \in 1..Len(raw) + 1, j \in 0..Len(raw)} :
        /\ \E a, b \in 0..Len(raw) : raw = Spaces(a) \o n \o Spaces(b)
        /\ n # <<>> => n[1] # " " /\ n[Len(n)] # " "

Unchanged == depts = last.depts0 /\ emps = last.emps0

\* C11: for an existing unit id, Delete(id, reassign, target) fails with
\* TargetRequired when the request has no target, else with
\* CannotReassignToSelf when target = id, else with TargetNotFound when target
\* is not an existing unit; in each case units and members are unchanged.
C11_ReassignTargetChecks ==
    LET r == last.req
    IN  (/\ r.op = "Delete" /\ r.mode = "reassign" /\ last.fail = 0
         /\ r.id \in IdsOf(last.depts0))
        => /\ r.target = NULL => last.result = "TargetRequired" /\ Unchanged
           /\ r.target = r.id => last.result = "CannotReassignToSelf" /\ Unchanged
           /\ r.target # NULL /\ r.target # r.id /\ r.target \notin IdsOf(last.depts0)
                 => last.result = "TargetNotFound" /\ Unchanged

\* a unit that owns a member was to be deleted with itself as the target
C11_Witness ==
    /\ last.req.op = "Delete" /\ last.req.mode = "reassign"
    /\ last.result = "CannotReassignToSelf"
    /\ MembersIn(emps, {last.req.id}) # {}

\* C12: Delete of a unit id that does not exist fails with NotFound whatever
\* the mode; Delete of an existing unit with a mode other than cascade or
\* reassign fails with InvalidMode; units and members are unchanged in both.
C12_InvalidModeAfterNotFound ==
    LET r == last.req
    IN  (r.op = "Delete" /\ last.fail = 0)
        => /\ r.id \notin IdsOf(last.depts0) => last.result = "NotFound" /\ Unchanged
           /\ r.id \in IdsOf(last.depts0) /\ r.mode \notin {"cascade", "reassign"}
                 => last.result = "InvalidMode" /\ Unchanged

\* an unknown mode was refused for a unit that has a child and a member
C12_Witness ==
    /\ last.req.op = "Delete" /\ last.result = "InvalidMode"
    /\ ChildrenOf(depts, {last.req.id}) # {}
    /\ emps # {}

\* C13: Create(name, parentId) with a parentId that names no existing unit
\* fails with NotFound, whatever the name, and inserts no unit.
C13_CreateUnderMissingParent ==
    LET r == last.req
    IN  (/\ r.op = "Create" /\ last.fail = 0
         /\ r.parent # NULL /\ r.parent \notin IdsOf(last.depts0))
        => last.result = "NotFound" /\ Unchanged

\* a Create under a missing parent was refused while other units exist
C13_Witness ==
    /\ last.req.op = "Create" /\ last.result = "NotFound"
    /\ last.req.parent \notin IdsOf(depts)
    /\ depts # {}

\* C14: Create(name, parent) with an existing or absent parent fails with
\* Duplicate exactly when an existing unit has the same parent (or also none)
\* and the trimmed requested name; otherwise it inserts exactly one new unit
\* with the trimmed name and that parent.
C14_CreateDuplicateExactly ==
    LET r == last.req
        name == TrimmedOf(r.name[1])
        clash == \E x \in last.depts0 : x.parent = r.parent /\ x.name = name
    IN  (/\ r.op = "Create" /\ last.fail = 0
         /\ r.parent = NULL \/ r.parent \in IdsOf(last.depts0))
        => IF clash
           THEN last.result = "Duplicate" /\ Unchanged
           ELSE /\ last.result = "ok"
                /\ emps = last.emps0
                /\ \E x \in depts :
                      /\ x.id \notin IdsOf(last.depts0)
                      /\ depts = last.depts0 \cup {x}
                      /\ x.name = name
                      /\ x.parent = r.parent

\* a name sent with spaces around it was accepted under one parent while a
\* unit under another parent already has the trimmed name
C14_Witness ==
    LET r == last.req
    IN  /\ r.op = "Create" /\ last.result = "ok"
        /\ r.name[1] # TrimmedOf(r.name[1])
        /\ \E x \in last.depts0 : x.name = TrimmedOf(r.name[1]) /\ x.parent # r.parent

\* C15: Update(id) with only a new name fails with Duplicate exactly when
\* another unit under id's current parent has the trimmed new name; otherwise
\* it succeeds and changes only id's name.
C15_RenameDuplicateExactly ==
    LET r == last.req
        cur == RowOf(last.depts0, r.id)
        name == TrimmedOf(r.name[1])
        clash == \E x \in last.depts0 :
                    x.id # r.id /\ x.parent = cur.parent /\ x.name = name
    IN  (/\ r.op = "Update" /\ last.fail = 0
         /\ r.id \in IdsOf(last.depts0)
         /\ r.name # None /\ r.parent = NULL)
        => IF clash
           THEN last.result = "Duplicate" /\ Unchanged
           ELSE /\ last.result = "ok"
                /\ emps = last.emps0
                /\ depts = (last.depts0 \ {cur}) \cup {Department(r.id, name, cur.parent)}

\* a unit with a sibling was renamed to the name it already had
C15_Witness ==
    LET r == last.req
    IN  /\ r.op = "Update" /\ last.result = "ok"
        /\ r.name # None /\ r.parent = NULL
        /\ r.id \in IdsOf(last.depts0)
        /\ TrimmedOf(r.name[1]) = RowOf(last.depts0, r.id).name
        /\ \E x \in last.depts0 :
              x.id # r.id /\ x.parent = RowOf(last.depts0, r.id).parent

\* C16: Update(id) with a new name and a new parent that exists and is
\* neither id nor a descendant of id fails with Duplicate exactly when another
\* unit under the new parent has the new name; otherwise it succeeds and id
\* has the new name and the new parent.
C16_RenameAndMoveUsesNewPair ==
    LET r == last.req
        cur == RowOf(last.depts0, r.id)
        name == TrimmedOf(r.name[1])
        clash == \E x \in last.depts0 :
                    x.id # r.id /\ x.parent = r.parent /\ x.name = name
    IN  (/\ r.op = "Update" /\ last.fail = 0
         /\ r.id \in IdsOf(last.depts0)
         /\ r.name # None /\ r.parent # NULL
         /\ r.parent \in IdsOf(last.depts0)
         /\ r.parent \notin SubtreeOf(last.depts0, r.id))
        => IF clash
           THEN last.result = "Duplicate" /\ Unchanged
           ELSE /\ last.result = "ok"
                /\ emps = last.emps0
                /\ depts = (last.depts0 \ {cur}) \cup {Department(r.id, name, r.parent)}

\* a rename with a move succeeded although a unit under the old parent has the
\* new name
C16_Witness ==
    LET r == last.req
    IN  /\ r.op = "Update" /\ last.result = "ok"
        /\ r.name # None /\ r.parent # NULL
        /\ r.id \in IdsOf(last.depts0)
        /\ RowOf(last.depts0, r.id).parent # r.parent
        /\ \E x \in last.depts0 :
              /\ x.id # r.id
              /\ x.parent = RowOf(last.depts0, r.id).parent
              /\ x.name = TrimmedOf(r.name[1])

\* C17: Update(id) with only a new parent that exists and is neither id nor a
\* descendant of id fails with Duplicate when another unit under the new
\* parent has id's current name, and id keeps its parent.
C17_MoveDuplicateUnderNewParent ==
    LET r == last.req
        cur == RowOf(last.depts0, r.id)
    IN  (/\ r.op = "Update" /\ last.fail = 0
         /\ r.id \in IdsOf(last.depts0)
         /\ r.name = None /\ r.parent # NULL
         /\ r.parent \in IdsOf(last.depts0)
         /\ r.parent \notin SubtreeOf(last.depts0, r.id)
         /\ \E x \in last.depts0 :
               x.id # r.id /\ x.parent = r.parent /\ x.name = cur.name)
        => /\ last.result = "Duplicate"
           /\ Unchanged
           /\ ParentOf(depts, r.id) = cur.parent

\* a move without a new name was refused for a name taken under the new parent
C17_Witness ==
    /\ last.req.op = "Update" /\ last.result = "Duplicate"
    /\ last.req.name = None /\ last.req.parent # NULL
    /\ ParentOf(depts, last.req.id) # last.req.parent

\* C21: in every state reached by Create, Update, Delete (both modes) and
\* CreateEmployee requests, the unit that owns a member exists.
C21_MemberOwnersExist ==
    \A m \in emps : m.dept \in IdsOf(depts)

\* a unit with a member below it was just deleted, in either mode, while
\* members remain
C21_Witness ==
    /\ last.req.op = "Delete" /\ last.result = "ok"
    /\ MembersIn(last.emps0, SubtreeOf(last.depts0, last.req.id)) # {}
    /\ depts # {}

\* C22: CreateEmployee(unitId) fails with NotFound and creates no member when
\* unitId names no existing unit; otherwise it creates exactly one new member
\* owned by unitId and changes no unit and no other member.
C22_CreateMemberExactly ==
    LET r == last.req
    IN  (r.op = "CreateEmployee" /\ last.fail = 0)
        => IF r.id \notin IdsOf(last.depts0)
           THEN last.result = "NotFound" /\ Unchanged
           ELSE /\ last.result = "ok"
                /\ depts = last.depts0
                /\ \E m \in emps :
                      /\ m.id \notin {x.id : x \in last.emps0}
                      /\ emps = last.emps0 \cup {m}
                      /\ m.dept = r.id

\* a second member was created while several units exist
C22_Witness ==
    /\ last.req.op = "CreateEmployee" /\ last.result = "ok"
    /\ last.emps0 # {}
    /\ Cardinality(emps) = Cardinality(last.emps0) + 1
    /\ Cardinality(depts) >= 2

ValidationClass ==
    {"NotFound", "Duplicate", "SelfReference", "CyclicReference", "InvalidMode",
     "TargetRequired", "TargetNotFound", "CannotReassignToSelf"}

ExpectedStatus(kind) ==
    CASE kind \in {"NotFound", "TargetNotFound"} -> 404
      [] kind \in {"Duplicate", "CyclicReference"} -> 409
      [] kind \in {"SelfReference", "InvalidMode", "TargetRequired",
                   "CannotReassignToSelf"} -> 400
      [] OTHER -> 500

\* C27: the response to a request that failed with a validation-class error
\* has the status of its kind (404, 409 or 400) and is the response of no
\* other kind of result; any other error is answered with 500.
C27_ErrorResponsesDistinct ==
    /\ last.result \in ValidationClass =>
          /\ last.response.status = ExpectedStatus(last.result)
          /\ \A k \in (ValidationClass \cup {"ok", "StoreError"}) \ {last.result} :
                ResponseOf(last.req.op, k) # last.response
    /\ last.result = "StoreError" => last.response.status = 500

\* a Delete was refused because its target does not exist
C27_Witness ==
    /\ last.result = "TargetNotFound"
    /\ last.response.status = 404

\* C30: a successful Update(id) with only a new parent changes the parent
\* reference of id and nothing else: the name of id, every other unit, every
\* member and the set of descendants of id are as before.
C30_MoveChangesParentOnly ==
    LET r == last.req
        cur == RowOf(last.depts0, r.id)
    IN  (/\ r.op = "Update" /\ last.result = "ok"
         /\ r.name = None /\ r.parent # NULL)
        => /\ depts = (last.depts0 \ {cur}) \cup {Department(r.id, cur.name, r.parent)}
           /\ emps = last.emps0
           /\ DescendantsOf(depts, r.id) = DescendantsOf(last.depts0, r.id)

\* a unit with a child and a member was moved under another unit
C30_Witness ==
    LET r == last.req
    IN  /\ r.op = "Update" /\ last.result = "ok"
        /\ r.name = None /\ r.parent # NULL
        /\ ParentOf(last.depts0, r.id) # r.parent
        /\ ParentOf(depts, r.id) = r.parent
        /\ DescendantsOf(depts, r.id) # {}
        /\ emps # {}

(***************************************************************************)
(* SpecResolver: GetAllDescendantIDs on any table the schema admits, the   *)
(* recursive query followed one iteration at a time.  The table is any set *)
(* of rows that satisfies the primary key, the foreign key and the UNIQUE  *)
(* constraint and in which no row is its own parent; the schema does not   *)
(* forbid a longer cycle of parent references, and two concurrent moves    *)
(* can store one (SpecMoveRace).                                           *)
(***************************************************************************)
StoredNames == {TrimSpace(n) : n \in RawNames}

TableOf(S, par, nm) == {Department(i, nm[i], par[i]) : i \in S}

SchemaOk(d) == \A r \in d : FkParentOk(d, r) /\ UniqueOk(d, r)

InitResolver ==
    /\ \E S \in SUBSET DeptIDs :
          \E par \in [S -> S \cup {NULL}], nm \in [S -> StoredNames] :
             /\ \A i \in S : par[i] # i
             /\ SchemaOk(TableOf(S, par, nm))
             /\ depts = TableOf(S, par, nm)
    /\ emps = {}
    /\ deptSeq = MaxDeptID + 1
    /\ empSeq = 1
    /\ last = Idle
    /\ cte = IdleCte
    /\ procs = IdleProcs

\* the state of a query together with the state of the call that runs it
Query(c, status) ==
    [root |-> c.root, work |-> c.work, result |-> c.result, iters |-> c.iters,
     status |-> status]

\* r.db.WithContext(ctx).Raw(query, id).Rows()
ResolverStart(id) ==
    /\ cte.status = "idle"
    /\ cte' = Query(CteInit(depts, id), "running")
    /\ UNCHANGED <<depts, emps, deptSeq, empSeq, last, procs>>

\* one more iteration of the recursive term
ResolverStep ==
    /\ cte.status = "running"
    /\ cte.work # {}
    /\ cte.iters < MaxCteIter
    /\ cte' = Query(CteStep(depts, cte), "running")
    /\ UNCHANGED <<depts, emps, deptSeq, empSeq, last, procs>>

\* the working table is empty: the rows are scanned and returned
ResolverReturn ==
    /\ cte.status = "running"
    /\ cte.work = {}
    /\ cte' = Query(cte, "done")
    /\ UNCHANGED <<depts, emps, deptSeq, empSeq, last, procs>>

\* defer rows.Close()
ResolverClose ==
    /\ cte.status = "done"
    /\ cte' = IdleCte
    /\ UNCHANGED <<depts, emps, deptSeq, empSeq, last, procs>>

NextResolver ==
    \/ \E id \in DeptIDs : ResolverStart(id)
    \/ ResolverStep
    \/ ResolverReturn
    \/ ResolverClose

SpecResolver == InitResolver /\ [][NextResolver]_vars

HasRepeat(s) == \E i, j \in 1..Len(s) : i # j /\ s[i] = s[j]

\* C9: on a table whose parent references contain a cycle, computing the
\* descendants of a unit on or above the cycle ends with an Integrity error:
\* the traversal never goes on after it has met a unit a second time.
C9_CycleEndsWithIntegrityError ==
    (cte.status # "idle" /\ HasRepeat(cte.result)) => cte.status = "Integrity"

\* C10: on every acyclic table, GetAllDescendantIDs(id) returns exactly the
\* units reachable from id by one or more parent-to-child steps, each once and
\* id not among them, and IsDescendant(a, c) is true exactly when c is in that
\* set for a.
C10_DescendantsExact ==
    Acyclic(depts) =>
        /\ cte.status = "done" =>
              /\ SeqToSet(cte.result) = DescendantsOf(depts, cte.root)
              /\ ~HasRepeat(cte.result)
              /\ cte.root \notin SeqToSet(cte.result)
        /\ \A a, c \in DeptIDs :
              /\ IsDescendant(depts, a, c).err = "ok"
              /\ IsDescendant(depts, a, c).val <=> c \in DescendantsOf(depts, a)

\* the query has returned a child and a grandchild of its root
C10_Witness ==
    /\ Acyclic(depts)
    /\ cte.status = "done"
    /\ Len(cte.result) >= 2
    /\ \E x \in SeqToSet(cte.result) : ParentOf(depts, x) # cte.root

(***************************************************************************)
(* Two requests served at the same time.  The service opens no transaction *)
(* and holds no lock, so every repository call is a statement of its own   *)
(* and the calls of the two requests interleave in any order.  A request   *)
(* keeps what its earlier calls returned.                                  *)
(***************************************************************************)
\* tables with units 1..k that non-overlapping requests can build
RaceTables ==
    {d \in UNION {{TableOf(1..k, par, nm) : par \in [1..k -> (1..k) \cup {NULL}], nm \in [1..k -> StoredNames]}
                    : k \in 0..MaxRaceUnits} :
        /\ Acyclic(d)
        /\ \A r1, r2 \in d : r1.id # r2.id /\ r1.parent = r2.parent => r1.name # r2.name}

InitRace ==
    /\ depts \in RaceTables
    /\ emps = {}
    /\ deptSeq = Cardinality(depts) + 1
    /\ empSeq = 1
    /\ last = Idle
    /\ cte = IdleCte
    /\ procs = IdleProcs

Goto(p, pc) == procs' = [procs EXCEPT ![p].pc = pc]
Return(p, result) == procs' = [procs EXCEPT ![p].pc = "done", ![p].result = result]

\* DepartmentHandler.Create calls departmentService.Create
StartCreate(p, rawName, parentID) ==
    /\ procs[p].pc = "idle"
    /\ procs' = [procs EXCEPT ![p] =
          Proc(IF parentID # NULL THEN "create_parent" ELSE "create_exists",
               Request("Create", NULL, Some(rawName), parentID, "", NULL), NoDept, "")]
    /\ UNCHANGED <<depts, emps, deptSeq, empSeq, last, cte>>

\* Create, lines 37-42: s.deptRepo.GetByID(ctx, *req.ParentID)
CreateGetParent(p) ==
    /\ procs[p].pc = "create_parent"
    /\ IF GetByID(depts, procs[p].req.parent).err # "ok"
       THEN Return(p, GetByID(depts, procs[p].req.parent).err)
       ELSE Goto(p, "create_exists")
    /\ UNCHANGED <<depts, emps, deptSeq, empSeq, last, cte>>

\* Create, lines 45-51: s.deptRepo.ExistsByNameAndParent(ctx, name, req.ParentID, nil)
CreateExists(p) ==
    /\ procs[p].pc = "create_exists"
    /\ IF ExistsByNameAndParent(depts, TrimSpace(procs[p].req.name[1]),
                                procs[p].req.parent, NULL)
       THEN Return(p, "Duplicate")
       ELSE Goto(p, "create_insert")
    /\ UNCHANGED <<depts, emps, deptSeq, empSeq, last, cte>>

\* Create, lines 53-62: s.deptRepo.Create(ctx, dept)
CreateInsert(p) ==
    LET ins == RepoCreate(depts, deptSeq, TrimSpace(procs[p].req.name[1]),
                          procs[p].req.parent)
    IN  /\ procs[p].pc = "create_insert"
        /\ depts' = ins.depts
        /\ deptSeq' = deptSeq + 1
        /\ procs' = [procs EXCEPT ![p].pc = "done", ![p].result = ins.err,
                                  ![p].dept = ins.dept,
                                  ![p].wrote = ins.depts # depts]
        /\ UNCHANGED <<emps, empSeq, last, cte>>

NextCreateRace ==
    \/ \E p \in Procs, n \in RawNames, par \in (1..MaxRaceUnits) \cup {NULL} : StartCreate(p, n, par)
    \/ \E p \in Procs : CreateGetParent(p)
    \/ \E p \in Procs : CreateExists(p)
    \/ \E p \in Procs : CreateInsert(p)

SpecCreateRace == InitRace /\ [][NextCreateRace]_vars

AllDone == \A p \in Procs : procs[p].pc = "done"

\* C7: when two concurrent Create requests carry the same trimmed name and
\* the same parent (an existing one, or none), at most one of them succeeds
\* and sibling names are distinct afterwards, whatever the interleaving.
C7_ConcurrentCreateOneWins ==
    (/\ AllDone
     /\ TrimSpace(procs[1].req.name[1]) = TrimSpace(procs[2].req.name[1])
     /\ procs[1].req.parent = procs[2].req.parent)
    => /\ ~(procs[1].result = "ok" /\ procs[2].result = "ok")
       /\ C2_SiblingNamesDistinct

\* where Update goes after the name part: the parent part starts with the
\* self-reference test, which calls nothing
AfterName(p, dept) ==
    IF procs[p].req.parent = NULL
    THEN procs' = [procs EXCEPT ![p].pc = "update_save", ![p].dept = dept]
    ELSE IF procs[p].req.parent = procs[p].req.id
    THEN procs' = [procs EXCEPT ![p].pc = "done", ![p].result = "SelfReference",
                                ![p].dept = dept]
    ELSE procs' = [procs EXCEPT ![p].pc = "update_parent", ![p].dept = dept]

\* DepartmentHandler.Update calls departmentService.Update
StartUpdate(p, id, nameOpt, parentID) ==
    /\ procs[p].pc = "idle"
    /\ procs' = [procs EXCEPT ![p] =
          Proc("update_get", Request("Update", id, nameOpt, parentID, "", NULL), NoDept, "")]
    /\ UNCHANGED <<depts, emps, deptSeq, empSeq, last, cte>>

\* Update, lines 70-73: s.deptRepo.GetByID(ctx, id)
UpdateGet(p) ==
    LET got == GetByID(depts, procs[p].req.id)
    IN  /\ procs[p].pc = "update_get"
        /\ IF got.err # "ok" THEN Return(p, got.err)
           ELSE IF procs[p].req.name # None
           THEN procs' = [procs EXCEPT ![p].pc = "update_name", ![p].dept = got.dept]
           ELSE AfterName(p, got.dept)
        /\ UNCHANGED <<depts, emps, deptSeq, empSeq, last, cte>>

\* Update, lines 76-95: s.deptRepo.ExistsByNameAndParent(ctx, name, parentID, &id)
UpdateExistsNewName(p) ==
    LET req == procs[p].req
        name == TrimSpace(req.name[1])
        parentID == IF req.parent # NULL THEN req.parent ELSE procs[p].dept.parent
    IN  /\ procs[p].pc = "update_name"
        /\ IF ExistsByNameAndParent(depts, name, parentID, req.id)
           THEN Return(p, "Duplicate")
           ELSE AfterName(p, [procs[p].dept EXCEPT !.name = name])
        /\ UNCHANGED <<depts, emps, deptSeq, empSeq, last, cte>>

\* Update, lines 106-110: s.deptRepo.GetByID(ctx, newParentID)
UpdateGetParent(p) ==
    /\ procs[p].pc = "update_parent"
    /\ IF GetByID(depts, procs[p].req.parent).err # "ok"
       THEN Return(p, GetByID(depts, procs[p].req.parent).err)
       ELSE Goto(p, "update_cycle")
    /\ UNCHANGED <<depts, emps, deptSeq, empSeq, last, cte>>

\* Update, lines 112-119: s.deptRepo.IsDescendant(ctx, id, newParentID); with a
\* new name in the request, line 132 follows without another call
UpdateIsDescendant(p) ==
    LET req == procs[p].req
        isDescendant == IsDescendant(depts, req.id, req.parent)
    IN  /\ procs[p].pc = "update_cycle"
        /\ IF isDescendant.err # "ok" THEN Return(p, isDescendant.err)
           ELSE IF isDescendant.val THEN Return(p, "CyclicReference")
           ELSE IF req.name = None THEN Goto(p, "update_current")
           ELSE procs' = [procs EXCEPT ![p].pc = "update_save",
                                       ![p].dept.parent = req.parent]
        /\ UNCHANGED <<depts, emps, deptSeq, empSeq, last, cte>>

\* Update, lines 122-132: s.deptRepo.ExistsByNameAndParent(ctx, dept.Name, &newParentID, &id)
UpdateExistsCurrentName(p) ==
    LET req == procs[p].req
    IN  /\ procs[p].pc = "update_current"
        /\ IF ExistsByNameAndParent(depts, procs[p].dept.name, req.parent, req.id)
           THEN Return(p, "Duplicate")
           ELSE procs' = [procs EXCEPT ![p].pc = "update_save",
                                       ![p].dept.parent = req.parent]
        /\ UNCHANGED <<depts, emps, deptSeq, empSeq, last, cte>>

\* Update, lines 135-139: s.deptRepo.Update(ctx, dept)
UpdateSave(p) ==
    LET saved == RepoUpdate(depts, procs[p].dept)
    IN  /\ procs[p].pc = "update_save"
        /\ depts' = saved.depts
        /\ procs' = [procs EXCEPT ![p].pc = "done", ![p].result = saved.err,
                                  ![p].wrote = saved.depts # depts]
        /\ UNCHANGED <<emps, deptSeq, empSeq, last, cte>>

NextMoveRace ==
    \/ \E p \in Procs, i \in 1..MaxRaceUnits + 1, n \in Opt(RawNames),
          par \in (1..MaxRaceUnits + 1) \cup {NULL} : StartUpdate(p, i, n, par)
    \/ \E p \in Procs : UpdateGet(p)
    \/ \E p \in Procs : UpdateExistsNewName(p)
    \/ \E p \in Procs : UpdateGetParent(p)
    \/ \E p \in Procs : UpdateIsDescendant(p)
    \/ \E p \in Procs : UpdateExistsCurrentName(p)
    \/ \E p \in Procs : UpdateSave(p)

SpecMoveRace == InitRace /\ [][NextMoveRace]_vars

\* C8: when two concurrent Update requests each move a unit, the parent
\* references are acyclic once both have completed, whatever the interleaving
\* and whatever the two results.
C8_ConcurrentMovesAcyclic ==
    (/\ AllDone
     /\ procs[1].req.parent # NULL
     /\ procs[2].req.parent # NULL)
    => Acyclic(depts)

\* C29: when an Update with only a new name and an Update with only a new
\* parent of the same unit run at the same time and both succeed, the unit
\* then has the new name and the new parent, and no other unit under that
\* parent has that name.
C29_RenameAndMoveBothKept ==
    \A p, q \in Procs :
        (/\ p # q /\ AllDone
         /\ procs[p].req.op = "Update" /\ procs[q].req.op = "Update"
         /\ procs[p].req.id = procs[q].req.id
         /\ procs[p].req.name # None /\ procs[p].req.parent = NULL
         /\ procs[q].req.name = None /\ procs[q].req.parent # NULL
         /\ procs[p].result = "ok" /\ procs[q].result = "ok")
        => /\ procs[p].req.id \in IdsOf(depts)
           /\ RowOf(depts, procs[p].req.id).name = TrimmedOf(procs[p].req.name[1])
           /\ RowOf(depts, procs[p].req.id).parent = procs[q].req.parent
           /\ \A x \in depts :
                 x.id # procs[p].req.id /\ x.parent = procs[q].req.parent
                    => x.name # TrimmedOf(procs[p].req.name[1])

(***************************************************************************)
(* SpecPlainStore: the cascade mode of Delete against a store that applies *)
(* no referential action, so that a DELETE removes the row it names and    *)
(* nothing else.  What is removed is then what the service itself removes. *)
(***************************************************************************)
\* departmentRepository.Delete: the one statement it issues, DELETE FROM
\* departments WHERE id = ?, without the schema's ON DELETE CASCADE
PlainDelete(d, e, id) ==
    IF id \notin IdsOf(d)
    THEN [err |-> "NotFound", depts |-> d, emps |-> e]
    ELSE [err |-> "ok", depts |-> {r \in d : r.id # id}, emps |-> e]

\* departmentService.Delete, mode cascade: GetByID(id), then DeleteCascade(id)
ServiceDeleteCascadePlain(d, e, id) ==
    LET del == PlainDelete(d, e, id)
    IN  IF GetByID(d, id).err # "ok" THEN Outcome(GetByID(d, id).err, d, e)
        ELSE Outcome(del.err, del.depts, del.emps)

DeleteOnPlainStore(id) ==
    LET out == ServiceDeleteCascadePlain(depts, emps, id)
    IN  /\ last = Idle
        /\ depts' = out.depts
        /\ emps' = out.emps
        /\ last' = Served(Request("Delete", id, None, NULL, "cascade", NULL),
                          out, 0, {}, depts, emps)
        /\ UNCHANGED <<deptSeq, empSeq, cte, procs>>

NextPlainStore ==
    \/ Respond
    \/ /\ last = Idle
       /\ \E n \in RawNames, p \in DeptIDs \cup {NULL} : Create(n, p, 0)
    \/ /\ last = Idle
       /\ \E i \in DeptIDs : CreateEmployee(i, 0)
    \/ /\ last = Idle
       /\ \E i \in DeptIDs : DeleteOnPlainStore(i)

SpecPlainStore == Init /\ [][NextPlainStore]_vars

\* C18: a successful Delete(id, cascade) removes every unit of the subtree of
\* id and every member owned by it also when the store removes only the row a
\* DELETE names: the N+1 units and their members are gone afterwards.
C18_EngineRemovesSubtreeItself ==
    LET r == last.req
        sub == SubtreeOf(last.depts0, r.id)
    IN  (r.op = "Delete" /\ r.mode = "cascade" /\ last.result = "ok")
        => /\ IdsOf(depts) \cap sub = {}
           /\ MembersIn(emps, sub) = {}
           /\ Cardinality(last.depts0) - Cardinality(depts)
                 = Cardinality(DescendantsOf(last.depts0, r.id)) + 1

(***************************************************************************)
(* SpecValidated: Create and Update as the handler serves them, with the   *)
(* validation of the request before the call of the service.               *)
(***************************************************************************)
\* validate:"...,max=200" on the name of a request
MaxNameLen == 200

Repeat(c, n) == [i \in 1..n |-> c]

\* names a client may send: none, blank, short, with a space after it, of the
\* greatest length, and one character longer
HandlerNames ==
    {<<>>, <<" ">>, <<"a">>, <<"a", " ">>, Repeat("a", MaxNameLen),
     Repeat("a", MaxNameLen + 1)}

\* CreateDepartmentRequest: Name required,min=1,max=200 (characters of the
\* name as received); ParentID omitempty,min=1
ValidCreate(rawName, parentID) ==
    /\ rawName # <<>>
    /\ Len(rawName) >= 1 /\ Len(rawName) <= MaxNameLen
    /\ parentID # NULL => parentID >= 1

\* UpdateDepartmentRequest: Name omitempty,min=1,max=200; ParentID omitempty,min=1
ValidUpdate(nameOpt, parentID) ==
    /\ nameOpt # None => Len(nameOpt[1]) >= 1 /\ Len(nameOpt[1]) <= MaxNameLen
    /\ parentID # NULL => parentID >= 1

\* h.respondError(w, http.StatusBadRequest, "validation error", ...)
Rejected(req) ==
    /\ last = Idle
    /\ last' = Served(req, Outcome("ValidationError", depts, emps), 0, {}, depts, emps)
    /\ UNCHANGED <<depts, emps, deptSeq, empSeq, cte, procs>>

\* DepartmentHandler.Create
HandlerCreate(rawName, parentID) ==
    IF ValidCreate(rawName, parentID)
    THEN Create(rawName, parentID, 0)
    ELSE Rejected(Request("Create", NULL, Some(rawName), parentID, "", NULL))

\* DepartmentHandler.Update
HandlerUpdate(id, nameOpt, parentID) ==
    IF ValidUpdate(nameOpt, parentID)
    THEN Update(id, nameOpt, parentID, 0)
    ELSE Rejected(Request("Update", id, nameOpt, parentID, "", NULL))

NextValidated ==
    \/ Respond
    \/ /\ last = Idle
       /\ \E n \in HandlerNames, p \in DeptIDs \cup {NULL} : HandlerCreate(n, p)
    \/ /\ last = Idle
       /\ \E i \in DeptIDs, n \in Opt(HandlerNames), p \in DeptIDs \cup {NULL} :
             HandlerUpdate(i, n, p)

SpecValidated == Init /\ [][NextValidated]_vars

\* C19: in every state reached by Create and Update requests that pass the
\* handler's validation, the stored name of every unit has between 1 and 200
\* characters.
C19_StoredNameLength ==
    \A r \in depts : Len(r.name) >= 1 /\ Len(r.name) <= MaxNameLen

(***************************************************************************)
(* SpecDeleteRace: a Create, an Update or a Delete (cascade) next to       *)
(* another of them, store call by store call.  The reassign mode ends with *)
(* the same DeleteCascade call; its earlier calls write members only.      *)
(***************************************************************************)
\* DepartmentHandler.Delete calls departmentService.Delete
StartDelete(p, id) ==
    /\ procs[p].pc = "idle"
    /\ procs' = [procs EXCEPT ![p] =
          Proc("delete_get", Request("Delete", id, None, NULL, "cascade", NULL), NoDept, "")]
    /\ UNCHANGED <<depts, emps, deptSeq, empSeq, last, cte>>

\* Delete, lines 143-163: s.deptRepo.GetByID(ctx, id), and in the reassign
\* mode the two tests of the target that call nothing
DeleteGet(p) ==
    LET req == procs[p].req
    IN  /\ procs[p].pc = "delete_get"
        /\ IF GetByID(depts, req.id).err # "ok" THEN Return(p, GetByID(depts, req.id).err)
           ELSE IF req.mode = "cascade" THEN Goto(p, "delete_exec")
           ELSE IF req.target = NULL THEN Return(p, "TargetRequired")
           ELSE IF req.target = req.id THEN Return(p, "CannotReassignToSelf")
           ELSE Goto(p, "delete_target")
        /\ UNCHANGED <<depts, emps, deptSeq, empSeq, last, cte>>

\* Delete, lines 150-151: s.deptRepo.DeleteCascade(ctx, id)
DeleteExec(p) ==
    LET del == DeleteCascade(depts, emps, procs[p].req.id)
    IN  /\ procs[p].pc = "delete_exec"
        /\ depts' = del.depts
        /\ emps' = del.emps
        /\ procs' = [procs EXCEPT ![p].pc = "done", ![p].result = del.err,
                                  ![p].wrote = procs[p].wrote \/ del.depts # depts]
        /\ UNCHANGED <<deptSeq, empSeq, last, cte>>

NextDeleteRace ==
    \/ \E p \in Procs, n \in RawNames, par \in (1..MaxRaceUnits) \cup {NULL} :
          StartCreate(p, n, par)
    \/ \E p \in Procs : CreateGetParent(p)
    \/ \E p \in Procs : CreateExists(p)
    \/ \E p \in Procs : CreateInsert(p)
    \/ \E p \in Procs, i \in 1..MaxRaceUnits, n \in Opt(RawNames),
          par \in (1..MaxRaceUnits) \cup {NULL} : StartUpdate(p, i, n, par)
    \/ \E p \in Procs : UpdateGet(p)
    \/ \E p \in Procs : UpdateExistsNewName(p)
    \/ \E p \in Procs : UpdateGetParent(p)
    \/ \E p \in Procs : UpdateIsDescendant(p)
    \/ \E p \in Procs : UpdateExistsCurrentName(p)
    \/ \E p \in Procs : UpdateSave(p)
    \/ \E p \in Procs, i \in 1..MaxRaceUnits : StartDelete(p, i)
    \/ \E p \in Procs : DeleteGet(p)
    \/ \E p \in Procs : DeleteExec(p)

SpecDeleteRace == InitRace /\ [][NextDeleteRace]_vars

\* C20: in every state reached by Create, Update and Delete requests, also
\* when a Create or a move under a parent P runs next to a Delete of P, every
\* unit with a parent reference refers to a unit that exists.
C20_ParentsExist ==
    \A r \in depts : r.parent # NULL => r.parent \in IdsOf(depts)

\* C24: once a Delete has succeeded, a unit that the store no longer holds is
\* never found again: every later read of it (GetByID, GetByIDWithChildren)
\* gives NotFound, whatever requests are still running.
C24_DeletedStaysNotFound ==
    [][\A x \in 1..MaxRaceUnits :
          (/\ \E p \in Procs : /\ procs[p].req.op = "Delete"
                               /\ procs[p].pc = "done" /\ procs[p].result = "ok"
           /\ x < deptSeq
           /\ GetByID(depts, x).err = "NotFound")
          => GetByID(depts', x).err = "NotFound"]_vars

\* a Delete of P succeeded between the lookup of P and the write of a Create
\* or a move under P, and the store refused that write
C20_Witness ==
    \E p, q \in Procs :
        /\ p # q /\ AllDone
        /\ procs[p].req.op = "Delete" /\ procs[p].result = "ok"
        /\ procs[q].req.op \in {"Create", "Update"}
        /\ procs[q].req.parent = procs[p].req.id
        /\ procs[q].result = "StoreError"

(***************************************************************************)
(* SpecProject: GET /departments/{id}?depth=&include_employees= on the     *)
(* tables that non-overlapping requests can build.  A unit is read with    *)
(* its members and its children down to the requested depth.               *)
(***************************************************************************)
\* validate:"min=1,max=5" on GetDepartmentQuery.Depth
MinDepth == 1
MaxDepth == 5

\* the depth parameter of the URL: absent (or empty), not a number, a number
NoDepth == [kind |-> "absent", n |-> 0]
NotANumber == [kind |-> "text", n |-> 0]
Number(n) == [kind |-> "int", n |-> n]
DepthParams == {NoDepth, NotANumber} \cup {Number(n) : n \in (MinDepth - 1)..(MaxDepth + 1)}

\* the include_employees parameter of the URL ("" is absent)
IncludeParams == {"", "true", "false"}

\* DepartmentHandler.parseGetQuery
ParseGetQuery(depthParam, includeParam) ==
    [Depth |-> IF depthParam.kind = "int" THEN depthParam.n ELSE 1,
     IncludeEmployees |-> IF includeParam # "" THEN includeParam = "true" ELSE TRUE]

\* the validation as it would be without max=5
ValidGetNoUpperLimit(query) == query.Depth >= MinDepth

\* h.validator.Struct(&query) on GetDepartmentQuery
ValidGet(query) == query.Depth >= MinDepth /\ query.Depth <= MaxDepth

\* a unit as it is read: the row, its Employees and its Children
Node(row, employees, children) ==
    [id |-> row.id, name |-> row.name, parent |-> row.parent,
     employees |-> employees, children |-> children]

NoNode == Node(NoDept, <<>>, {})

\* Preload("Employees", ... Order("created_at ASC")): the members of a unit in
\* the order of their creation
EmployeesOf(e, id, includeEmployees) ==
    IF includeEmployees THEN SetToSeq({m.id : m \in {x \in e : x.dept = id}}) ELSE <<>>

\* loadChildren as it would be if it stopped one level later (depth < 0)
RECURSIVE LoadChildrenOneLevelMore(_, _, _, _, _)
LoadChildrenOneLevelMore(d, e, id, depth, includeEmployees) ==
    IF depth < 0 THEN {}
    ELSE {Node(c, EmployeesOf(e, c.id, includeEmployees),
               LoadChildrenOneLevelMore(d, e, c.id, depth - 1, includeEmployees))
            : c \in {r \in d : r.parent = id}}

\* departmentRepository.loadChildren: the value of dept.Children
RECURSIVE LoadChildren(_, _, _, _, _)
LoadChildren(d, e, id, depth, includeEmployees) ==
    IF depth <= 0 THEN {}
    ELSE {Node(c, EmployeesOf(e, c.id, includeEmployees),
               LoadChildren(d, e, c.id, depth - 1, includeEmployees))
            : c \in {r \in d : r.parent = id}}

\* departmentRepository.GetByIDWithChildren
GetByIDWithChildren(d, e, id, depth, includeEmployees) ==
    IF id \notin IdsOf(d) THEN [err |-> "NotFound", dept |-> NoNode]
    ELSE [err |-> "ok",
          dept |-> Node(RowOf(d, id), EmployeesOf(e, id, includeEmployees),
                        IF depth > 0
                        THEN LoadChildren(d, e, id, depth, includeEmployees)
                        ELSE {})]

\* DepartmentHandler.toDepartmentResponseWithChildren
RECURSIVE ToDepartmentResponseWithChildren(_, _)
ToDepartmentResponseWithChildren(dept, includeEmployees) ==
    [id |-> dept.id, name |-> dept.name, parent |-> dept.parent,
     employees |-> IF includeEmployees /\ Len(dept.employees) > 0
                   THEN dept.employees ELSE <<>>,
     children |-> {ToDepartmentResponseWithChildren(c, includeEmployees)
                     : c \in dept.children}]

\* the request answered, with the query it was parsed to and the body written
Answered(id, depthParam, result, query, body) ==
    [req |-> Request("Get", id, None, NULL, "", NULL), result |-> result,
     fail |-> 0, done |-> {}, depts0 |-> depts, emps0 |-> emps,
     response |-> ResponseOf("Get", result),
     depth |-> depthParam, query |-> query, body |-> body]

\* DepartmentHandler.GetByID
HandlerGet(id, depthParam, includeParam) ==
    LET query == ParseGetQuery(depthParam, includeParam)
        got == GetByIDWithChildren(depts, emps, id, query.Depth, query.IncludeEmployees)
    IN  /\ last = Idle
        /\ last' = IF ~ValidGet(query)
                   THEN Answered(id, depthParam, "ValidationError", query, NoNode)
                   ELSE IF got.err # "ok"
                   THEN Answered(id, depthParam, got.err, query, NoNode)
                   ELSE Answered(id, depthParam, "ok", query,
                           ToDepartmentResponseWithChildren(got.dept, query.IncludeEmployees))
        /\ UNCHANGED <<depts, emps, deptSeq, empSeq, cte, procs>>

\* the tables that non-overlapping requests can build
ProjectTables ==
    {d \in UNION {{TableOf(S, par, nm) : par \in [S -> S \cup {NULL}], nm \in [S -> StoredNames]}
                    : S \in SUBSET DeptIDs} :
        /\ Acyclic(d)
        /\ \A r1, r2 \in d : r1.id # r2.id /\ r1.parent = r2.parent => r1.name # r2.name}

InitProject ==
    /\ depts \in ProjectTables
    /\ \E M \in SUBSET EmpIDs : \E own \in [M -> IdsOf(depts)] :
          emps = {Employee(i, own[i]) : i \in M}
    /\ deptSeq = MaxDeptID + 1
    /\ empSeq = MaxEmpID + 1
    /\ last = Idle
    /\ cte = IdleCte
    /\ procs = IdleProcs

NextProject ==
    \/ Respond
    \/ /\ last = Idle
       /\ \E i \in DeptIDs, dp \in DepthParams, ip \in IncludeParams : HandlerGet(i, dp, ip)

SpecProject == InitProject /\ [][NextProject]_vars

\* the n-th unit above x (NULL when there is none)
RECURSIVE Up(_, _, _)
Up(d, x, n) == IF n = 0 \/ x = NULL THEN x ELSE Up(d, ParentOf(d, x), n - 1)

WithinSteps(d, root, k) == {x \in IdsOf(d) : \E n \in 0..k : Up(d, x, n) = root}

RECURSIVE NodesOf(_)
NodesOf(node) == {node} \cup UNION {NodesOf(c) : c \in node.children}

IsGet == "body" \in DOMAIN last

\* C25: the projection of an existing unit at depth d in 1..5 holds exactly the
\* units at most d parent-to-child steps below it, each nested under its
\* parent with its stored name, and with includeMembers each unit carries
\* exactly its own members (none without it).
C25_ProjectionExact ==
    (IsGet /\ last.result = "ok")
    => LET nodes == NodesOf(last.body)
       IN  /\ last.body.id = last.req.id
           /\ last.query.Depth \in MinDepth..MaxDepth
           /\ {n.id : n \in nodes} = WithinSteps(depts, last.req.id, last.query.Depth)
           /\ \A n \in nodes :
                 /\ Department(n.id, n.name, n.parent) \in depts
                 /\ \A c \in n.children : c.parent = n.id
                 /\ SeqToSet(n.employees) =
                       IF last.query.IncludeEmployees
                       THEN {m.id : m \in MembersIn(emps, {n.id})} ELSE {}
                 /\ ~HasRepeat(n.employees)

\* a unit with a grandchild was projected at depth 1 with members: the child is
\* there with its member, the grandchild is not
C25_Witness ==
    /\ IsGet /\ last.result = "ok"
    /\ last.query.Depth = 1 /\ last.query.IncludeEmployees
    /\ \E c \in last.body.children : c.employees # <<>>
    /\ DescendantsOf(depts, last.req.id) # {c.id : c \in last.body.children}

Clamp(n) == IF n < MinDepth THEN MinDepth ELSE IF n > MaxDepth THEN MaxDepth ELSE n

\* C26 as claimed: a projection of an existing unit with a depth below 1 or
\* above 5 is served with the depth clamped to 1 resp. 5, and without a depth
\* with depth 1.
C26_DepthClamped ==
    (/\ IsGet /\ last.req.id \in IdsOf(depts)
     /\ last.depth.kind \in {"absent", "int"})
    => /\ last.result = "ok"
       /\ {n.id : n \in NodesOf(last.body)} =
             WithinSteps(depts, last.req.id,
                         IF last.depth.kind = "int" THEN Clamp(last.depth.n) ELSE 1)

\* C26 as amended: a projection with a depth below 1 or above 5 is refused
\* with a validation error (status 400) and nothing is projected, whether the
\* unit exists or not; without a depth an existing unit is projected with
\* depth 1.
C26_DepthValidated ==
    IsGet =>
       /\ (last.depth.kind = "int" /\ (last.depth.n < MinDepth \/ last.depth.n > MaxDepth))
             => /\ last.result = "ValidationError"
                /\ last.response.status = 400
                /\ last.body = NoNode
       /\ (last.depth.kind = "absent" /\ last.req.id \in IdsOf(depts))
             => /\ last.result = "ok"
                /\ {n.id : n \in NodesOf(last.body)} = WithinSteps(depts, last.req.id, 1)

\* a depth above 5 was refused for a unit that has a child
C26_Witness ==
    /\ IsGet /\ last.result = "ValidationError"
    /\ last.depth.kind = "int" /\ last.depth.n > MaxDepth
    /\ ChildrenOf(depts, {last.req.id}) # {}

(***************************************************************************)
(* SpecMemberRace: a CreateEmployee or a Delete (either mode) next to      *)
(* another of them, store call by store call, on tables with at most one   *)
(* member.                                                                 *)
(***************************************************************************)
InitMemberRace ==
    /\ depts \in RaceTables
    /\ emps \in {{}} \cup {{Employee(1, u)} : u \in IdsOf(depts)}
    /\ deptSeq = Cardinality(depts) + 1
    /\ empSeq = Cardinality(emps) + 1
    /\ last = Idle
    /\ cte = IdleCte
    /\ procs = IdleProcs

\* DepartmentHandler.CreateEmployee calls employeeService.Create
StartCreateEmployee(p, departmentID) ==
    /\ procs[p].pc = "idle"
    /\ procs' = [procs EXCEPT ![p] =
          Proc("emp_get", Request("CreateEmployee", departmentID, None, NULL, "", NULL),
               NoDept, "")]
    /\ UNCHANGED <<depts, emps, deptSeq, empSeq, last, cte>>

\* employeeService.Create, lines 35-38: s.deptRepo.GetByID(ctx, departmentID)
EmpGet(p) ==
    /\ procs[p].pc = "emp_get"
    /\ IF GetByID(depts, procs[p].req.id).err # "ok"
       THEN Return(p, GetByID(depts, procs[p].req.id).err)
       ELSE Goto(p, "emp_insert")
    /\ UNCHANGED <<depts, emps, deptSeq, empSeq, last, cte>>

\* employeeService.Create, lines 55-57: s.empRepo.Create(ctx, emp)
EmpInsert(p) ==
    LET ins == EmpCreate(depts, emps, empSeq, procs[p].req.id)
    IN  /\ procs[p].pc = "emp_insert"
        /\ emps' = ins.emps
        /\ empSeq' = empSeq + 1
        /\ procs' = [procs EXCEPT ![p].pc = "done", ![p].result = ins.err,
                                  ![p].emp = IF ins.err = "ok" THEN empSeq ELSE NULL,
                                  ![p].wrote = ins.emps # emps]
        /\ UNCHANGED <<depts, deptSeq, last, cte>>

\* DepartmentHandler.Delete calls departmentService.Delete with mode=reassign
StartDeleteReassign(p, id, targetID) ==
    /\ procs[p].pc = "idle"
    /\ procs' = [procs EXCEPT ![p] =
          Proc("delete_get", Request("Delete", id, None, NULL, "reassign", targetID),
               NoDept, "")]
    /\ UNCHANGED <<depts, emps, deptSeq, empSeq, last, cte>>

\* Delete, lines 165-172: s.deptRepo.GetByID(ctx, targetID)
DeleteGetTarget(p) ==
    /\ procs[p].pc = "delete_target"
    /\ IF GetByID(depts, procs[p].req.target).err = "NotFound"
       THEN Return(p, "TargetNotFound")
       ELSE Goto(p, "delete_members")
    /\ UNCHANGED <<depts, emps, deptSeq, empSeq, last, cte>>

\* UPDATE employees SET department_id = to WHERE department_id = from, under
\* the foreign key on department_id: refused when it would leave a row that
\* refers to a unit that is not there
ReassignStatement(d, e, fromDeptID, toDeptID) ==
    IF MembersIn(e, {fromDeptID}) # {} /\ toDeptID \notin IdsOf(d)
    THEN [err |-> "StoreError", emps |-> e]
    ELSE [err |-> "ok", emps |-> ReassignToDepartment(e, fromDeptID, toDeptID)]

\* Delete, lines 174-177: s.empRepo.ReassignToDepartment(ctx, id, targetID)
DeleteReassignOwn(p) ==
    LET upd == ReassignStatement(depts, emps, procs[p].req.id, procs[p].req.target)
    IN  /\ procs[p].pc = "delete_members"
        /\ emps' = upd.emps
        /\ IF upd.err # "ok" THEN Return(p, upd.err)
           ELSE procs' = [procs EXCEPT ![p].pc = "delete_reget",
                                       ![p].wrote = procs[p].wrote \/ upd.emps # emps]
        /\ UNCHANGED <<depts, deptSeq, empSeq, last, cte>>

\* Delete, line 181: dept, _ := s.deptRepo.GetByID(ctx, id), the error dropped
DeleteReget(p) ==
    /\ procs[p].pc = "delete_reget"
    /\ procs' = [procs EXCEPT ![p].pc = "delete_descendants",
                              ![p].dept = GetByID(depts, procs[p].req.id).dept]
    /\ UNCHANGED <<depts, emps, deptSeq, empSeq, last, cte>>

\* Delete, lines 182-185: s.deptRepo.GetAllDescendantIDs(ctx, id); a loop over
\* no descendants calls nothing
DeleteDescendants(p) ==
    LET descendants == GetAllDescendantIDs(depts, procs[p].req.id)
    IN  /\ procs[p].pc = "delete_descendants"
        /\ IF descendants.err # "ok" THEN Return(p, descendants.err)
           ELSE procs' = [procs EXCEPT
                            ![p].pc = IF descendants.ids = <<>> THEN "delete_exec"
                                                              ELSE "delete_loop",
                            ![p].todo = descendants.ids]
        /\ UNCHANGED <<depts, emps, deptSeq, empSeq, last, cte>>

\* Delete, lines 188-192: s.empRepo.ReassignToDepartment(ctx, descID, targetID)
DeleteReassignNext(p) ==
    LET upd == ReassignStatement(depts, emps, Head(procs[p].todo), procs[p].req.target)
    IN  /\ procs[p].pc = "delete_loop"
        /\ emps' = upd.emps
        /\ IF upd.err # "ok" THEN Return(p, upd.err)
           ELSE procs' = [procs EXCEPT
                            ![p].pc = IF Tail(procs[p].todo) = <<>> THEN "delete_exec"
                                                                   ELSE "delete_loop",
                            ![p].todo = Tail(procs[p].todo),
                            ![p].wrote = procs[p].wrote \/ upd.emps # emps]
        /\ UNCHANGED <<depts, deptSeq, empSeq, last, cte>>

NextMemberRace ==
    \/ \E p \in Procs, u \in 1..MaxRaceUnits : StartCreateEmployee(p, u)
    \/ \E p \in Procs : EmpGet(p)
    \/ \E p \in Procs : EmpInsert(p)
    \/ \E p \in Procs, i \in 1..MaxRaceUnits : StartDelete(p, i)
    \/ \E p \in Procs, i \in 1..MaxRaceUnits, t \in (1..MaxRaceUnits) \cup {NULL} :
          StartDeleteReassign(p, i, t)
    \/ \E p \in Procs : DeleteGet(p)
    \/ \E p \in Procs : DeleteGetTarget(p)
    \/ \E p \in Procs : DeleteReassignOwn(p)
    \/ \E p \in Procs : DeleteReget(p)
    \/ \E p \in Procs : DeleteDescendants(p)
    \/ \E p \in Procs : DeleteReassignNext(p)
    \/ \E p \in Procs : DeleteExec(p)

SpecMemberRace == InitMemberRace /\ [][NextMemberRace]_vars

\* C23: a Create, Update, Delete or CreateEmployee call that returns a
\* validation-class error has changed neither a unit nor a member.
C23_ValidationErrorWritesNothing ==
    \A p \in Procs :
        (procs[p].pc = "done" /\ procs[p].result \in ValidationClass)
        => ~procs[p].wrote

\* C28: when a CreateEmployee(u) and a Delete in reassign mode have both
\* completed and the target of the Delete is still there, a member whose
\* creation succeeded exists and is owned by an existing unit.
C28_CreatedMemberSurvives ==
    \A p, q \in Procs :
        (/\ p # q /\ AllDone
         /\ procs[p].req.op = "CreateEmployee" /\ procs[p].result = "ok"
         /\ procs[q].req.op = "Delete" /\ procs[q].req.mode = "reassign"
         /\ procs[q].req.target \in IdsOf(depts))
        => \E m \in emps : m.id = procs[p].emp /\ m.dept \in IdsOf(depts)

====
